---- MODULE Spec2Model ----
(***************************************************************************)
(* wish-tree: a Mount Source tree is flattened, depth first, into a lazy   *)
(* sequence of Virtual Files which one of three renderers (directory, ZIP, *)
(* gzipped tar) consumes entry by entry.                                   *)
(*                                                                         *)
(* Paths are modelled by their components plus the trailing separator that *)
(* PathBuf::join leaves when a non-empty path is joined with "".  Byte     *)
(* contents are sequences of numbers.  The environment (the source file    *)
(* system, a failure condition of the host) is fixed during a behaviour.   *)
(***************************************************************************)
EXTENDS Integers, Sequences, FiniteSets, TLC

\* ------------------------------------------------------------------ bounds
\* Nodes of a Mount Source tree handed to a renderer.
MaxNodes == 3
\* Nodes of a Mount Source tree rendered on a host that fails.
MaxFaultNodes == 2
\* Nodes of a Mount Source tree handed to the resolver alone.
MaxWalkNodes == 4
\* Calls of render_to_fs made in a row on one target.
MaxCalls == 2

\* ------------------------------------------------------------------- paths
Path(c, t) == [comps |-> c, trail |-> t]

EmptyPath == Path(<<>>, FALSE)

\* Join as it would be were the entry name taken for the whole path.
JoinNameOnly(p, q) == q

\* PathBuf::join for relative operands: joining "" onto a non-empty path
\* leaves a trailing separator, joining it onto "" leaves "".
Join(p, q) ==
    IF q.comps = <<>>
    THEN Path(p.comps, p.comps # <<>>)
    ELSE Path(p.comps \o q.comps, q.trail)

\* Path::as_os_str().is_empty()
IsEmptyOsStr(p) == p.comps = <<>> /\ ~p.trail

\* Path::parent(): the path without its last component.
Parent(p) == Path(SubSeq(p.comps, 1, Len(p.comps) - 1), FALSE)

\* Path::strip_prefix(base) of a path the walk found below base.
StripPrefix(p, base) ==
    Path(SubSeq(p.comps, Len(base.comps) + 1, Len(p.comps)), FALSE)

RECURSIVE FlattenSeq(_)
FlattenSeq(ss) == IF ss = <<>> THEN <<>> ELSE Head(ss) \o FlattenSeq(Tail(ss))

SeqToSet(s) == { s[i] : i \in 1..Len(s) }

\* ------------------------------------------------- the source file system
\* The real tree the copy and file-set sources read: base/a.txt, base/b.log,
\* base/sub/c.txt.
SrcDirs == { <<"base">>, <<"base", "sub">> }

SrcFiles == { <<"base", "a.txt">>, <<"base", "b.log">>, <<"base", "sub", "c.txt">> }

\* Host enumeration order of a directory.
ReadDir(d) ==
    IF d = <<"base">> THEN << "a.txt", "b.log", "sub" >>
    ELSE IF d = <<"base", "sub">> THEN << "c.txt" >>
    ELSE <<>>

\* Bytes of a source file.
SrcContent(f) ==
    IF f = <<"base", "a.txt">> THEN <<65>>
    ELSE IF f = <<"base", "b.log">> THEN <<66, 66>>
    ELSE IF f = <<"base", "sub", "c.txt">> THEN <<67>>
    ELSE <<>>

\* Path::is_dir()
IsDir(p) == p.comps \in SrcDirs

\* Failure conditions of the host, fixed for a behaviour: "none", or every
\* operation of one class fails.
Faults == { "none", "sink", "mkdir", "create", "open", "read", "write", "read_dir" }

\* ------------------------------------------------------------ glob filter
\* A pattern is a sequence of tokens: a literal component, "**" (the
\* directory prefix **/), or "*.ext" (a wildcard, which crosses separators).
HasExt(name, tok) ==
    \/ tok = "*.txt" /\ name \in { "a.txt", "c.txt" }
    \/ tok = "*.log" /\ name \in { "b.log" }

IsWild(tok) == tok \in { "*.txt", "*.log" }

RECURSIVE GlobMatch(_, _)
GlobMatch(pat, cs) ==
    IF pat = <<>> THEN cs = <<>>
    ELSE IF Head(pat) = "**"
    THEN \E k \in 0..Len(cs) : GlobMatch(Tail(pat), SubSeq(cs, k + 1, Len(cs)))
    ELSE IF IsWild(Head(pat))
    THEN \E k \in 1..Len(cs) :
            /\ HasExt(cs[k], Head(pat))
            /\ GlobMatch(Tail(pat), SubSeq(cs, k + 1, Len(cs)))
    ELSE /\ cs # <<>>
         /\ Head(cs) = Head(pat)
         /\ GlobMatch(Tail(pat), Tail(cs))

\* GlobSet::is_match: the union of the include patterns.
IsMatch(includes, p) == \E pat \in includes : GlobMatch(pat, p.comps)

\* FileSet::matches
Matches(set, p) == IsMatch(set.includes, p)

\* ----------------------------------------------------------- mount source
NoSet == [base_dir |-> EmptyPath, includes |-> {}]

CopyFromPath(p) ==
    [kind |-> "CopyFromPath", p |-> p, entries |-> <<>>, text |-> <<>>, set |-> NoSet]

CustomDir(es) ==
    [kind |-> "CustomDir", p |-> EmptyPath, entries |-> es, text |-> <<>>, set |-> NoSet]

TextContent(t) ==
    [kind |-> "TextContent", p |-> EmptyPath, entries |-> <<>>, text |-> t, set |-> NoSet]

FileSetSource(s) ==
    [kind |-> "FileSet", p |-> EmptyPath, entries |-> <<>>, text |-> <<>>, set |-> s]

CustomDirEntry(name, src) == [name |-> name, mount_source |-> src]

\* Mount: a mount point and a reference to a node, the node's address being
\* the entry indices on the route from the root.
Mount(point, route) == [point |-> point, source |-> route]

RECURSIVE NodeAt(_, _)
NodeAt(root, route) ==
    IF route = <<>> THEN root
    ELSE NodeAt(root.entries[Head(route)].mount_source, Tail(route))


\* ------------------------------------------------------------------ state
VARIABLES
    tree,       \* the Mount Source being rendered (immutable)
    kind,       \* the renderer called: "fs", "zip", "tar", or "walk"
    fault,      \* the host's failure condition
    pc,         \* "idle", "next" (loop head), "body" (an entry is bound)
    outcome,    \* of the latest call: "none", "running", "ok", "panic"
    calls,      \* render calls started
    it,         \* the lazy flattened iterator: mounts left, current inner iterator
    w,          \* the Virtual File bound by the loop: <<>> or <<vf>>
    nentry,     \* entries the iterator has yielded in this call
    open,       \* content resources open now, by entry number
    buffer,     \* the archive renderers' reused read buffer
    fs,         \* the target file system: absolute path -> [is_dir, data]
    zip,        \* the ZIP file: [exists, entries]
    tar,        \* the tar.gz file: [exists, entries, finished]
    emitted,    \* history: the Virtual Files yielded in this call, with their Mount
    failed_at,  \* history: entry at which an I/O operation first failed, -1 if none
    fs_hist     \* history: the target file system at the end of each call

vars == << tree, kind, fault, pc, outcome, calls, it, w, nentry, open, buffer,
           fs, zip, tar, emitted, failed_at, fs_hist >>

\* ---------------------------------------------------------- tree resolver
\* walk_recursive visiting the entries last to first.
RECURSIVE walk_recursive_reversed(_, _, _)
walk_recursive_reversed(node, route, mount_point) ==
    << Mount(mount_point, route) >> \o
    IF node.kind = "CustomDir"
    THEN FlattenSeq([ i \in 1..Len(node.entries) |->
            LET j == Len(node.entries) + 1 - i
            IN  walk_recursive_reversed(node.entries[j].mount_source,
                                        Append(route, j),
                                        Join(mount_point, node.entries[j].name)) ])
    ELSE <<>>

\* walk_recursive chaining the node's own Mount after those of its entries.
RECURSIVE walk_recursive_post(_, _, _)
walk_recursive_post(node, route, mount_point) ==
    (IF node.kind = "CustomDir"
     THEN FlattenSeq([ i \in 1..Len(node.entries) |->
             walk_recursive_post(node.entries[i].mount_source,
                                 Append(route, i),
                                 Join(mount_point, node.entries[i].name)) ])
     ELSE <<>>)
    \o << Mount(mount_point, route) >>

\* walk_recursive: the Mount of the node, then those of its entries in order.
RECURSIVE walk_recursive(_, _, _)
walk_recursive(node, route, mount_point) ==
    << Mount(mount_point, route) >> \o
    IF node.kind = "CustomDir"
    THEN FlattenSeq([ i \in 1..Len(node.entries) |->
            walk_recursive(node.entries[i].mount_source,
                           Append(route, i),
                           Join(mount_point, node.entries[i].name)) ])
    ELSE <<>>

\* walk_mounts: starts with the source mounted at root ("").
walk_mounts(root) == walk_recursive(root, <<>>, EmptyPath)

\* An item of WalkDir's iterator: a DirEntry, or an error.
DirEntry(p, ok) == [ok |-> ok, path |-> p, is_dir |-> IsDir(p)]

RECURSIVE WalkDirRaw(_)
WalkDirRaw(p) ==
    << DirEntry(p, TRUE) >> \o
    IF ~IsDir(p) THEN <<>>
    ELSE IF fault = "read_dir" THEN << DirEntry(p, FALSE) >>
    ELSE FlattenSeq([ i \in 1..Len(ReadDir(p.comps)) |->
            WalkDirRaw(Path(Append(p.comps, ReadDir(p.comps)[i]), FALSE)) ])

\* A pending item of an inner iterator.  "dir", "cursor" and "opened" are the
\* Virtual File of a once(); "entry" is a WalkDir item that the map closure
\* turns into a Virtual File when it is pulled.
Thunk(t, path, text, src, is_dir, ok, base) ==
    [t |-> t, path |-> path, text |-> text, src |-> src, is_dir |-> is_dir,
     ok |-> ok, base |-> base]

EntryThunks(items, mount_point, base_dir) ==
    [ i \in 1..Len(items) |->
        Thunk("entry", mount_point, <<>>, items[i].path, items[i].is_dir,
              items[i].ok, base_dir) ]

\* resolve_virtual_files: the inner iterator of one mount.  Errors of the
\* directory walk stay in the sequence until the iterator passes them.
resolve_virtual_files(node, mount_point) ==
    CASE node.kind = "CopyFromPath" ->
            IF IsDir(node.p)
            THEN EntryThunks(WalkDirRaw(node.p), mount_point, node.p)
            ELSE << Thunk("opened", mount_point, <<>>, node.p, FALSE, TRUE, EmptyPath) >>
      [] node.kind = "CustomDir" ->
            << Thunk("dir", mount_point, <<>>, EmptyPath, TRUE, TRUE, EmptyPath) >>
      [] node.kind = "TextContent" ->
            << Thunk("cursor", mount_point, node.text, EmptyPath, FALSE, TRUE, EmptyPath) >>
      [] node.kind = "FileSet" ->
            EntryThunks(
                SelectSeq(WalkDirRaw(node.set.base_dir),
                          LAMBDA e : ~e.ok \/ Matches(node.set, e.path)),
                mount_point, node.set.base_dir)

\* VirtualFile and its reader.
Reader(k, text, src) == [kind |-> k, text |-> text, src |-> src]

VirtualFile(path, is_dir, reader) == [path |-> path, is_dir |-> is_dir, reader |-> reader]

VirtualFileDir(full_path) == VirtualFile(full_path, TRUE, Reader("empty", <<>>, EmptyPath))

\* create_virtual_file_from_dir_entry
create_virtual_file_from_dir_entry(entry, mount_point, base_dir) ==
    LET full_path == Join(mount_point, StripPrefix(entry.src, base_dir))
    IN  IF entry.is_dir
        THEN VirtualFileDir(full_path)
        ELSE VirtualFile(full_path, FALSE, Reader("file", <<>>, entry.src))

\* The Virtual File a pending item becomes.
Force(th) ==
    CASE th.t = "dir"    -> VirtualFileDir(th.path)
      [] th.t = "cursor" -> VirtualFile(th.path, FALSE, Reader("cursor", th.text, EmptyPath))
      [] th.t = "opened" -> VirtualFile(th.path, FALSE, Reader("file", <<>>, th.src))
      [] th.t = "entry"  -> create_virtual_file_from_dir_entry(th, th.path, th.base)

\* The bytes a reader yields when read to its end.
Content(reader) ==
    CASE reader.kind = "empty"  -> <<>>
      [] reader.kind = "cursor" -> reader.text
      [] reader.kind = "file"   -> SrcContent(reader.src.comps)

\* walk_virtual_files: map(resolve_virtual_files) over the mounts, flattened.
\* The iterator holds the mounts left and the inner iterator of the current one.
walk_virtual_files(root) == [outer |-> walk_mounts(root), front |-> <<>>, mount |-> <<>>]

\* Flatten::next with filter_map(|e| e.ok()): the next item, the iterator
\* after it, and the number of walk errors dropped on the way.
RECURSIVE FlattenNext(_, _, _)
FlattenNext(root, i, errs) ==
    IF i.front # <<>>
    THEN IF Head(i.front).ok
         THEN [some |-> TRUE, item |-> << Head(i.front) >>,
               it |-> [i EXCEPT !.front = Tail(i.front)], errs |-> errs]
         ELSE FlattenNext(root, [i EXCEPT !.front = Tail(i.front)], errs + 1)
    ELSE IF i.outer # <<>>
    THEN FlattenNext(root,
            [outer |-> Tail(i.outer),
             front |-> resolve_virtual_files(NodeAt(root, Head(i.outer).source),
                                             Head(i.outer).point),
             mount |-> << Head(i.outer) >>],
            errs)
    ELSE [some |-> FALSE, item |-> <<>>, it |-> i, errs |-> errs]


\* ------------------------------------------------------ target file system
TargetDir == Path(<<"target">>, FALSE)

DirNode == [is_dir |-> TRUE, data |-> <<>>]

FileNode(d) == [is_dir |-> FALSE, data |-> d]

Prefixes(cs) == { SubSeq(cs, 1, k) : k \in 1..Len(cs) }

\* fs::create_dir_all: creates the directory and its missing ancestors; an
\* existing directory is fine, a file on the way is an error.
create_dir_all(f, p) ==
    IF \E q \in Prefixes(p.comps) : q \in DOMAIN f /\ ~f[q].is_dir
    THEN [ok |-> FALSE, fs |-> f]
    ELSE IF Prefixes(p.comps) \subseteq DOMAIN f
    THEN [ok |-> TRUE, fs |-> f]
    ELSE IF fault = "mkdir"
    THEN [ok |-> FALSE, fs |-> f]
    ELSE [ok |-> TRUE,
          fs |-> [ q \in DOMAIN f \cup Prefixes(p.comps) |->
                      IF q \in DOMAIN f THEN f[q] ELSE DirNode ]]

\* File::create as it would be were the file opened for appending: what an
\* existing file holds is kept.
FileCreateAppend(f, p) ==
    IF \/ p.trail
       \/ fault = "create"
       \/ p.comps \in DOMAIN f /\ f[p.comps].is_dir
       \/ Parent(p).comps \notin DOMAIN f
       \/ Parent(p).comps \in DOMAIN f /\ ~f[Parent(p).comps].is_dir
    THEN [ok |-> FALSE, fs |-> f]
    ELSE [ok |-> TRUE,
          fs |-> [ q \in DOMAIN f \cup { p.comps } |->
                      IF q \in DOMAIN f THEN f[q] ELSE FileNode(<<>>) ]]

\* File::create: creates or truncates a regular file in an existing
\* directory; a path that ends in a separator or names a directory fails.
FileCreate(f, p) ==
    IF \/ p.trail
       \/ fault = "create"
       \/ p.comps \in DOMAIN f /\ f[p.comps].is_dir
       \/ Parent(p).comps \notin DOMAIN f
       \/ Parent(p).comps \in DOMAIN f /\ ~f[Parent(p).comps].is_dir
    THEN [ok |-> FALSE, fs |-> f]
    ELSE [ok |-> TRUE,
          fs |-> [ q \in DOMAIN f \cup { p.comps } |->
                      IF q = p.comps THEN FileNode(<<>>) ELSE f[q] ]]

\* io::copy into the file just created: the reader's bytes follow what the
\* file holds.
IoCopy(f, p, reader) ==
    IF fault \in { "read", "write" }
    THEN [ok |-> FALSE, fs |-> f]
    ELSE [ok |-> TRUE,
          fs |-> [f EXCEPT ![p.comps] = FileNode(@.data \o Content(reader))]]

\* One iteration of the loop of render_to_fs.
render_to_fs_entry(f, vf) ==
    LET absolute_path == Join(TargetDir, vf.path)
    IN  IF vf.is_dir
        THEN LET d == create_dir_all(f, absolute_path)
             IN  [fs |-> d.fs, failed |-> ~d.ok, panic |-> FALSE]
        ELSE LET d == create_dir_all(f, Parent(absolute_path))
                 c == FileCreate(d.fs, absolute_path)
             IN  IF ~c.ok
                 THEN [fs |-> d.fs, failed |-> TRUE, panic |-> TRUE]
                 ELSE LET x == IoCopy(c.fs, absolute_path, vf.reader)
                      IN  [fs |-> x.fs, failed |-> ~d.ok \/ ~x.ok, panic |-> FALSE]

\* ---------------------------------------------------------------- archives
\* An archive entry; reader remembers the Virtual File it was made from.
ArchiveEntry(name, is_dir, size, data, written, reader) ==
    [name |-> name, is_dir |-> is_dir, size |-> size, data |-> data,
     written |-> written, reader |-> reader]

\* The entry name the archive stores for a path: its components.
EntryName(p) == p.comps

\* The buffer left as it is.
BufferKeep(b) == b

\* Vec::clear
BufferClear(b) == <<>>

\* Read::read_to_end appends to the buffer.
ReadToEnd(b, reader) == b \o Content(reader)

\* One iteration of the loop of render_to_zip.
render_to_zip_entry(z, b, vf) ==
    IF vf.is_dir
    THEN IF IsEmptyOsStr(vf.path)
         THEN [zip |-> z, buffer |-> b, failed |-> FALSE, panic |-> FALSE]
         ELSE IF fault = "write"
         THEN [zip |-> z, buffer |-> b, failed |-> TRUE, panic |-> TRUE]
         ELSE [zip |-> [z EXCEPT !.entries = Append(@,
                          ArchiveEntry(EntryName(vf.path), TRUE, 0, <<>>, TRUE, vf.reader))],
               buffer |-> b, failed |-> FALSE, panic |-> FALSE]
    ELSE IF fault = "write"
    THEN [zip |-> z, buffer |-> b, failed |-> TRUE, panic |-> TRUE]
    ELSE IF fault = "read"
    THEN [zip |-> [z EXCEPT !.entries = Append(@,
                     ArchiveEntry(EntryName(vf.path), FALSE, 0, <<>>, FALSE, vf.reader))],
          buffer |-> b, failed |-> TRUE, panic |-> TRUE]
    ELSE LET filled == ReadToEnd(b, vf.reader)
         IN  [zip |-> [z EXCEPT !.entries = Append(@,
                         ArchiveEntry(EntryName(vf.path), FALSE, Len(filled), filled,
                                      TRUE, vf.reader))],
              buffer |-> BufferClear(filled), failed |-> FALSE, panic |-> FALSE]

\* tar::Builder::append_data: a path without a component is refused.
TarAppendFails(p) == p.comps = <<>> \/ fault = "write"

\* One iteration of the loop of render_to_tar_gz.
render_to_tar_gz_entry(t, b, vf) ==
    IF vf.is_dir
    THEN IF IsEmptyOsStr(vf.path)
         THEN [tar |-> t, buffer |-> b, failed |-> FALSE, panic |-> FALSE]
         ELSE IF TarAppendFails(vf.path)
         THEN [tar |-> t, buffer |-> b, failed |-> TRUE, panic |-> TRUE]
         ELSE [tar |-> [t EXCEPT !.entries = Append(@,
                          ArchiveEntry(EntryName(vf.path), TRUE, 0, <<>>, TRUE, vf.reader))],
               buffer |-> b, failed |-> FALSE, panic |-> FALSE]
    ELSE IF fault = "read"
    THEN [tar |-> t, buffer |-> b, failed |-> TRUE, panic |-> TRUE]
    ELSE LET filled == ReadToEnd(b, vf.reader)
         IN  IF TarAppendFails(vf.path)
             THEN [tar |-> t, buffer |-> filled, failed |-> TRUE, panic |-> TRUE]
             ELSE [tar |-> [t EXCEPT !.entries = Append(@,
                             ArchiveEntry(EntryName(vf.path), FALSE, Len(filled), filled,
                                          TRUE, vf.reader))],
                   buffer |-> BufferClear(filled), failed |-> FALSE, panic |-> FALSE]

\* -------------------------------------------------------- content resources
\* A file Virtual File owns its reader (an open file or a cursor).
Acquire(op, vf, k) == IF vf.is_dir THEN op ELSE op \cup { k }

\* A Virtual File that outlives its loop body.
ReleaseLeak(op, k) == op

\* Dropping the Virtual File at the end of the loop body releases it.
Release(op, k) == op \ { k }

\* File::open is called for an opened file and for a file the walk found.
NeedsOpen(th) == th.t = "opened" \/ (th.t = "entry" /\ ~th.is_dir)


\* ------------------------------------------------------------------ inputs
Names == { EmptyPath, Path(<<"a">>, FALSE), Path(<<"b">>, FALSE) }

Texts == { <<104, 105>> }

CopyPaths == { Path(<<"base", "sub">>, FALSE), Path(<<"base", "a.txt">>, FALSE) }

FileSets ==
    { [base_dir |-> Path(<<"base">>, FALSE), includes |-> inc] :
        inc \in { { <<"**", "*.txt">> }, { <<"sub", "*.txt">>, <<"base", "*.log">> } } }

RenderLeaves ==
    { TextContent(t) : t \in Texts } \cup
    { CopyFromPath(q) : q \in CopyPaths } \cup
    { FileSetSource(s) : s \in FileSets }

WalkLeaves == { TextContent(<<104, 105>>), CopyFromPath(Path(<<"base", "sub">>, FALSE)) }

\* The Mount Sources of exactly n nodes over the given leaves, as the dir!
\* macro and the conversions build them.
RECURSIVE Trees(_, _), Forests(_, _)
Trees(n, leaves) ==
    (IF n = 1 THEN leaves ELSE {}) \cup { CustomDir(es) : es \in Forests(n - 1, leaves) }

Forests(m, leaves) ==
    IF m = 0 THEN { <<>> }
    ELSE UNION { { << CustomDirEntry(nm, t) >> \o rest :
                     nm \in Names, t \in Trees(k, leaves), rest \in Forests(m - k, leaves) } :
                 k \in 1..m }

TreesUpTo(n, leaves) == UNION { Trees(k, leaves) : k \in 1..n }

NoFs == [ q \in {} |-> DirNode ]

\* The target before the first call: absent, or left by an earlier use with a
\* file a.
StaleFs ==
    [ q \in { <<"target">>, <<"target", "a">> } |->
        IF q = <<"target">> THEN DirNode ELSE FileNode(<<111, 108, 100>>) ]

NoArchive == [exists |-> FALSE, entries |-> <<>>, finished |-> FALSE]

NewArchive == [exists |-> TRUE, entries |-> <<>>, finished |-> FALSE]

\* ------------------------------------------------------------------- init
InitCommon ==
    /\ outcome = "none"
    /\ calls = 0
    /\ it = walk_virtual_files(tree)
    /\ w = <<>>
    /\ nentry = 0
    /\ open = {}
    /\ buffer = <<>>
    /\ zip = NoArchive
    /\ tar = NoArchive
    /\ emitted = <<>>
    /\ failed_at = -1
    /\ fs_hist = <<>>

Init ==
    /\ fault \in Faults
    /\ tree \in TreesUpTo(IF fault = "none" THEN MaxNodes ELSE MaxFaultNodes, RenderLeaves)
    /\ kind \in { "fs", "zip", "tar" }
    /\ fs \in IF kind = "fs" THEN { NoFs, StaleFs } ELSE { NoFs }
    /\ pc = "idle"
    /\ InitCommon

\* The resolver alone: walk_virtual_files consumed by a loop that drops
\* every entry.
InitWalk ==
    /\ tree \in TreesUpTo(MaxWalkNodes, WalkLeaves)
    /\ kind = "walk"
    /\ fault = "none"
    /\ fs = NoFs
    /\ pc = "next"
    /\ InitCommon

\* ---------------------------------------------------------------- actions
NoteFailure(failed, k) == IF failed /\ failed_at = -1 THEN k ELSE failed_at

\* The call ends: by returning, or by a panic that unwinds it.
EndCall(result, f) ==
    /\ pc' = "idle"
    /\ outcome' = result
    /\ w' = <<>>
    /\ open' = {}
    /\ buffer' = <<>>
    /\ fs_hist' = Append(fs_hist, f)

\* render_to_fs / render_to_zip / render_to_tar_gz up to the loop: the sink
\* is created, the iterator is built.  An archive renderer creates its file
\* anew, so a second call of it repeats the first and is left out.
Call ==
    /\ pc = "idle"
    /\ kind # "walk"
    /\ calls < (IF kind = "fs" THEN MaxCalls ELSE 1)
    /\ calls' = calls + 1
    /\ it' = walk_virtual_files(tree)
    /\ nentry' = 0
    /\ emitted' = <<>>
    /\ IF kind # "fs" /\ fault = "sink"
       THEN /\ EndCall("panic", fs)
            /\ failed_at' = 0
            /\ UNCHANGED << zip, tar >>
       ELSE /\ pc' = "next"
            /\ outcome' = "running"
            /\ failed_at' = -1
            /\ zip' = IF kind = "zip" THEN NewArchive ELSE zip
            /\ tar' = IF kind = "tar" THEN NewArchive ELSE tar
            /\ UNCHANGED << w, open, buffer, fs_hist >>
    /\ UNCHANGED << tree, kind, fault, fs >>

\* The for loop asks the iterator for its next Virtual File.
IterNext ==
    /\ pc = "next"
    /\ LET r == FlattenNext(tree, it, 0)
       IN  /\ it' = r.it
           /\ IF ~r.some
              THEN /\ pc' = "end"
                   /\ failed_at' = NoteFailure(r.errs > 0, nentry + 1)
                   /\ UNCHANGED << outcome, w, nentry, open, buffer, emitted, fs_hist >>
              ELSE IF NeedsOpen(r.item[1]) /\ fault = "open"
              THEN /\ EndCall("panic", fs)
                   /\ failed_at' = NoteFailure(TRUE, nentry + 1)
                   /\ UNCHANGED << nentry, emitted >>
              ELSE /\ pc' = "body"
                   /\ w' = << Force(r.item[1]) >>
                   /\ nentry' = nentry + 1
                   /\ open' = Acquire(open, Force(r.item[1]), nentry + 1)
                   /\ emitted' = Append(emitted,
                                    [vf |-> Force(r.item[1]), mount |-> r.it.mount[1]])
                   /\ failed_at' = NoteFailure(r.errs > 0, nentry + 1)
                   /\ UNCHANGED << outcome, buffer, fs_hist >>
    /\ UNCHANGED << tree, kind, fault, calls, fs, zip, tar >>

\* The end of a loop body: the panic unwinds, or the entry is dropped and
\* the loop goes on.
AfterBody(r, f) ==
    /\ failed_at' = NoteFailure(r.failed, nentry)
    /\ IF r.panic
       THEN EndCall("panic", f)
       ELSE /\ pc' = "next"
            /\ w' = <<>>
            /\ open' = Release(open, nentry)
            /\ UNCHANGED << outcome, fs_hist >>
    /\ UNCHANGED << tree, kind, fault, calls, it, nentry, emitted >>

FsBody ==
    /\ pc = "body"
    /\ kind = "fs"
    /\ LET r == render_to_fs_entry(fs, w[1])
       IN  /\ fs' = r.fs
           /\ AfterBody(r, r.fs)
           /\ IF r.panic THEN TRUE ELSE buffer' = buffer
    /\ UNCHANGED << zip, tar >>

ZipBody ==
    /\ pc = "body"
    /\ kind = "zip"
    /\ LET r == render_to_zip_entry(zip, buffer, w[1])
       IN  /\ zip' = r.zip
           /\ AfterBody(r, fs)
           /\ IF r.panic THEN TRUE ELSE buffer' = r.buffer
    /\ UNCHANGED << fs, tar >>

TarBody ==
    /\ pc = "body"
    /\ kind = "tar"
    /\ LET r == render_to_tar_gz_entry(tar, buffer, w[1])
       IN  /\ tar' = r.tar
           /\ AfterBody(r, fs)
           /\ IF r.panic THEN TRUE ELSE buffer' = r.buffer
    /\ UNCHANGED << fs, zip >>

\* The resolver's consumer drops the entry.
WalkBody ==
    /\ pc = "body"
    /\ kind = "walk"
    /\ AfterBody([failed |-> FALSE, panic |-> FALSE], fs)
    /\ UNCHANGED << buffer, fs, zip, tar >>

\* The loop is over: the tar stream is finished, the call returns.
Return ==
    /\ pc = "end"
    /\ IF kind = "tar" /\ fault = "write"
       THEN /\ EndCall("panic", fs)
            /\ failed_at' = NoteFailure(TRUE, nentry + 1)
            /\ tar' = tar
       ELSE /\ EndCall("ok", fs)
            /\ failed_at' = failed_at
            /\ tar' = IF kind = "tar" THEN [tar EXCEPT !.finished = TRUE] ELSE tar
    /\ UNCHANGED << tree, kind, fault, calls, it, nentry, fs, zip, emitted >>

Next == Call \/ IterNext \/ FsBody \/ ZipBody \/ TarBody \/ Return

Spec == Init /\ [][Next]_vars

NextWalk == IterNext \/ WalkBody \/ Return

SpecWalk == InitWalk /\ [][NextWalk]_vars


\* ----------------------------------------------------------------- claims
Mounts == walk_mounts(tree)

ArchiveEntries == SeqToSet(zip.entries) \cup SeqToSet(tar.entries)

\* The Virtual Files yielded for the mount of the node at a route.
EmittedOf(route) ==
    { emitted[j].vf : j \in { i \in 1..Len(emitted) : emitted[i].mount.source = route } }

\* C1: render_to_zip and render_to_tar_gz never add an archive entry, file
\* or directory, whose path is empty.
C1_NoEmptyArchivePath == \A e \in ArchiveEntries : e.name # <<>>

\* C2: an I/O failure at any point of a render call aborts the call there:
\* once an operation has failed the call is a hard failure, it neither goes
\* on to later entries nor returns normally.
C2_FailureAborts == failed_at # -1 => outcome = "panic"

\* The entries of the real subtree under base_dir whose path relative to
\* base_dir the filter accepts.
AcceptedRelative(set) ==
    { e \in SeqToSet(WalkDirRaw(set.base_dir)) :
        e.ok /\ Matches(set, StripPrefix(e.path, set.base_dir)) }

\* C3: a FileSet mounted at m yields a Virtual File for exactly the entries
\* under base_dir whose path relative to base_dir the filter accepts, each at
\* m joined with the relative path.
C3_FileSetRelativeFilter ==
    (outcome = "ok" /\ fault = "none") =>
        \A k \in 1..Len(Mounts) :
            LET m == Mounts[k]
                node == NodeAt(tree, m.source)
            IN  node.kind = "FileSet" =>
                    { [path |-> vf.path, is_dir |-> vf.is_dir] : vf \in EmittedOf(m.source) }
                    = { [path |-> Join(m.point, StripPrefix(e.path, node.set.base_dir)),
                         is_dir |-> e.is_dir] : e \in AcceptedRelative(node.set) }

\* The first position at which two routes differ, 0 if one is a prefix of
\* the other.
Fork(r1, r2) ==
    LET n == IF Len(r1) < Len(r2) THEN Len(r1) ELSE Len(r2)
        diff == { d \in 1..n : r1[d] # r2[d] }
    IN  IF diff = {} THEN 0 ELSE CHOOSE d \in diff : \A x \in diff : d <= x

\* C4: the Virtual Files of the subtree of entry i of a CustomDir all come
\* before those of the subtree of entry j whenever i < j, at every depth.
C4_EntriesInListedOrder ==
    \A p, q \in 1..Len(emitted) :
        LET rp == emitted[p].mount.source
            rq == emitted[q].mount.source
            d == Fork(rp, rq)
        IN  (d # 0 /\ rp[d] < rq[d]) => p < q

C4_Witness ==
    /\ kind = "walk"
    /\ outcome = "ok"
    /\ \E p, q \in 1..Len(emitted) :
          /\ emitted[p].mount.source = << 1, 1 >>
          /\ emitted[q].mount.source = << 1, 2 >>
    /\ \E p, q \in 1..Len(emitted) :
          /\ p # q
          /\ emitted[p].mount.source = emitted[q].mount.source
          /\ Fork(emitted[p].mount.source, << 2 >>) = 1

\* The addresses of the nodes of a tree.
RECURSIVE Routes(_, _)
Routes(node, route) ==
    { route } \cup
    UNION { Routes(node.entries[i].mount_source, Append(route, i)) :
              i \in 1..Len(node.entries) }

\* The components of the entry names on the route to a node.
RECURSIVE RouteComps(_, _)
RouteComps(node, route) ==
    IF route = <<>> THEN <<>>
    ELSE node.entries[Head(route)].name.comps \o
         RouteComps(node.entries[Head(route)].mount_source, Tail(route))

OnlyDirsAndTexts ==
    \A r \in Routes(tree, <<>>) : NodeAt(tree, r).kind \in { "CustomDir", "TextContent" }

\* C5: for a tree of CustomDir and TextContent nodes the walk yields exactly
\* one Virtual File per node: at the join of the names on its route, a
\* directory exactly for a CustomDir, and nothing is deduplicated.
C5_OneFilePerNode ==
    (outcome = "ok" /\ OnlyDirsAndTexts) =>
        /\ Len(emitted) = Cardinality(Routes(tree, <<>>))
        /\ \A r \in Routes(tree, <<>>) :
              \E k \in 1..Len(emitted) :
                  /\ emitted[k].mount.source = r
                  /\ \A j \in 1..Len(emitted) : emitted[j].mount.source = r => j = k
                  /\ emitted[k].vf.path.comps = RouteComps(tree, r)
                  /\ emitted[k].vf.is_dir = (NodeAt(tree, r).kind = "CustomDir")
                  /\ (NodeAt(tree, r).kind = "TextContent" =>
                          Content(emitted[k].vf.reader) = NodeAt(tree, r).text)

C5_Witness ==
    /\ kind = "walk"
    /\ outcome = "ok"
    /\ OnlyDirsAndTexts
    /\ \E p, q \in 1..Len(emitted) :
          /\ p < q
          /\ emitted[p].vf.path = emitted[q].vf.path
          /\ emitted[p].vf.path.comps # <<>>
          /\ ~emitted[p].vf.is_dir
          /\ emitted[q].vf.is_dir

\* C6: after a render call that returned, every CustomDir mounted at a
\* non-empty path is an explicit directory entry of the archive, or an
\* existing directory of the target.
C6_CustomDirsPreserved ==
    outcome = "ok" =>
        \A k \in 1..Len(Mounts) :
            LET m == Mounts[k]
            IN  (NodeAt(tree, m.source).kind = "CustomDir" /\ ~IsEmptyOsStr(m.point)) =>
                    CASE kind = "zip" ->
                            \E e \in SeqToSet(zip.entries) :
                                e.is_dir /\ e.name = EntryName(m.point)
                      [] kind = "tar" ->
                            \E e \in SeqToSet(tar.entries) :
                                e.is_dir /\ e.name = EntryName(m.point)
                      [] kind = "fs" ->
                            /\ Join(TargetDir, m.point).comps \in DOMAIN fs
                            /\ fs[Join(TargetDir, m.point).comps].is_dir
                      [] OTHER -> TRUE

\* C7: at most one content resource is open at any moment, it is that of
\* the entry the loop has bound, and none is open between entries or after
\* the call.
C7_OneResourceAtATime ==
    /\ Cardinality(open) <= 1
    /\ open \subseteq { nentry }
    /\ pc # "body" => open = {}

C7_Witness ==
    /\ pc = "body"
    /\ open = { nentry }
    /\ \E j \in 1..(nentry - 1) : ~emitted[j].vf.is_dir /\ emitted[j].vf.reader.kind = "file"

\* C8: render_to_fs called again on the same target leaves the target as
\* the call before it left it.
C8_FsRenderIdempotent ==
    kind = "fs" => \A k \in 2..Len(fs_hist) : fs_hist[k] = fs_hist[k - 1]

C8_Witness ==
    /\ kind = "fs"
    /\ outcome = "ok"
    /\ Len(fs_hist) = 2
    /\ \E q \in DOMAIN fs : ~fs[q].is_dir /\ fs[q].data # <<>> /\ fs[q].data # <<111, 108, 100>>
    /\ \E q \in DOMAIN fs : fs[q].is_dir /\ q # TargetDir.comps

\* C9: the directory Virtual File of a CustomDir comes before every Virtual
\* File of a mount nested below it.
C9_ParentBeforeChildren ==
    \A q \in 1..Len(emitted) :
        \A n \in 0..(Len(emitted[q].mount.source) - 1) :
            \E p \in 1..(q - 1) :
                /\ emitted[p].mount.source = SubSeq(emitted[q].mount.source, 1, n)
                /\ emitted[p].vf.is_dir
                /\ emitted[p].vf.path = emitted[p].mount.point

C9_Witness ==
    /\ kind = "walk"
    /\ outcome = "ok"
    /\ \E q \in 1..Len(emitted) : ~emitted[q].vf.is_dir /\ Len(emitted[q].mount.source) = 3

\* C10: every file entry written to an archive holds exactly the content of
\* its own Virtual File, with that length as its size, and the read buffer
\* is empty whenever an entry is about to be read.
C10_ArchiveContentExact ==
    /\ \A e \in ArchiveEntries :
          (e.written /\ ~e.is_dir) =>
              /\ e.data = Content(e.reader)
              /\ e.size = Len(Content(e.reader))
    /\ pc \in { "next", "body", "end" } => buffer = <<>>

C10_Witness ==
    /\ outcome = "ok"
    /\ \E a \in { zip, tar } :
          \E i, j, l \in 1..Len(a.entries) :
              /\ i < j /\ j < l
              /\ ~a.entries[i].is_dir /\ a.entries[i].data # <<>>
              /\ a.entries[j].is_dir
              /\ ~a.entries[l].is_dir /\ a.entries[l].written

====
